---- MODULE Spec2Model ----
(***************************************************************************)
(* Heightmap tooling of afk/utils/heightmap: three boundary extractors     *)
(* (extract_bounds_rgb.py, extract_bounds.py, extract_bounds_fast.py) and  *)
(* the Fourier fit with safety margin of extract_bounds_rgb.py.            *)
(*                                                                         *)
(* Spec    : the three scripts from image load to the statistics print.    *)
(* FitSpec : extract_bounds_rgb.py from line 105 (curve fit, margin,       *)
(*           safe curve, verification print, formula print).               *)
(*                                                                         *)
(* Alpha values are integers on the 0..255 scale.  A column is revealed    *)
(* when the loop reads it (the image is read-only and every column is read *)
(* by exactly one loop iteration).  Real numbers are fixed point, FP units *)
(* per pixel.                                                              *)
(***************************************************************************)
EXTENDS Integers, Sequences, FiniteSets

VARIABLES script, mode, width, height, x, col, terrain_curve, heightmap,
          written, pc, params, safe_params, all_above, formula

vars == <<script, mode, width, height, x, col, terrain_curve, heightmap,
          written, pc, params, safe_params, all_above, formula>>

fitvars == <<params, safe_params, all_above, formula>>

\* ---------------------------------------------------------------- bounds
MaxPoints == 3
MaxHeight == 4

\* ------------------------------------------------------ program constants
ALPHA_THRESHOLD == 50
ALPHA_THRESHOLD_FAST == 128
HALF_ALPHA == 255
SAMPLE_INTERVAL == 10

\* ---------------------------------------------------------------- helpers
None == <<>>
Some(v) == <<v>>

SetMin(S) == CHOOSE m \in S : \A n \in S : m <= n
SetMax(S) == CHOOSE m \in S : \A n \in S : n <= m

\* img.getpixel((x, y)) for the column read: a 4-tuple with alpha when the
\* image has an alpha band, a 3-tuple otherwise.
getpixel(alphas, m) ==
    [i \in 1..Len(alphas) |-> IF m = "RGBA" THEN <<0, 0, 0, alphas[i]>>
                                             ELSE <<0, 0, 0>>]

is_transparent(pixel, threshold) ==
    IF Len(pixel) = 4 THEN pixel[4] <= threshold ELSE FALSE

is_opaque(pixel, threshold) ==
    IF Len(pixel) = 4 THEN pixel[4] > threshold ELSE TRUE

\* for y in range(height - 1): first y with pixel y transparent and pixel
\* y + 1 opaque gives boundary_y = y + 1 (rows are 0-based, sequences 1-based).
RECURSIVE scan_transition(_, _, _)
scan_transition(pixels, y, threshold) ==
    IF y >= Len(pixels) - 1 THEN None
    ELSE IF is_transparent(pixels[y + 1], threshold)
            /\ is_opaque(pixels[y + 2], threshold)
         THEN Some(y + 1)
         ELSE scan_transition(pixels, y + 1, threshold)

\* for y in range(height): the first opaque pixel; nothing when there is none.
RECURSIVE scan_first_opaque(_, _, _)
scan_first_opaque(pixels, y, threshold) ==
    IF y >= Len(pixels) THEN None
    ELSE IF is_opaque(pixels[y + 1], threshold) THEN Some(y)
         ELSE scan_first_opaque(pixels, y + 1, threshold)

\* Faulty variant: the transition scan is dropped, only the first opaque row counts.
rgb_boundary_first_opaque(pixels, threshold) ==
    scan_first_opaque(pixels, 0, threshold)

\* One iteration of the column loop of extract_bounds_rgb.py: the row
\* appended for the column, or None when nothing is appended.
rgb_boundary(pixels, threshold) ==
    LET boundary_y == scan_transition(pixels, 0, threshold)
    IN  IF boundary_y # None THEN boundary_y
        ELSE scan_first_opaque(pixels, 0, threshold)

\* extract_bounds.py: alpha as ImageMagick prints it, a fraction of 1; kept
\* here in units of 1/510 so that 0.5 is HALF_ALPHA.  A pixel printed without
\* an "rgba" prefix parses as 0.0.
get_pixel_alpha(alpha, m) == IF m = "RGBA" THEN 2 * alpha ELSE 0

RECURSIVE scan_top_opaque(_, _, _)
scan_top_opaque(alphas, y, m) ==
    IF y >= Len(alphas) THEN Len(alphas) - 1
    ELSE IF get_pixel_alpha(alphas[y + 1], m) > HALF_ALPHA THEN y
         ELSE scan_top_opaque(alphas, y + 1, m)

find_top_opaque_pixel(alphas, m) == scan_top_opaque(alphas, 0, m)

\* extract_bounds_fast.py: top_y = height - 1, then the first row whose
\* byte exceeds the threshold.
RECURSIVE scan_fast(_, _, _)
scan_fast(alphas, y, threshold) ==
    IF y >= Len(alphas) THEN Len(alphas) - 1
    ELSE IF alphas[y + 1] > threshold THEN y
         ELSE scan_fast(alphas, y + 1, threshold)

\* Faulty variant: a byte equal to the threshold counts as opaque.
RECURSIVE scan_fast_geq(_, _, _)
scan_fast_geq(alphas, y, threshold) ==
    IF y >= Len(alphas) THEN Len(alphas) - 1
    ELSE IF alphas[y + 1] >= threshold THEN y
         ELSE scan_fast_geq(alphas, y + 1, threshold)

fast_top_y_geq(alphas, threshold) == scan_fast_geq(alphas, 0, threshold)


fast_top_y(alphas, threshold) == scan_fast(alphas, 0, threshold)

\* ----------------------------------------------------------------- inputs
Scripts == {"rgb", "plain", "fast"}

step(s) == IF s = "rgb" THEN 1 ELSE SAMPLE_INTERVAL

\* The two alpha values on either side of each script's cut.
AlphaSet(s) ==
    IF s = "rgb" THEN {ALPHA_THRESHOLD, ALPHA_THRESHOLD + 1}
    ELSE IF s = "fast" THEN {ALPHA_THRESHOLD_FAST, ALPHA_THRESHOLD_FAST + 1}
    ELSE {ALPHA_THRESHOLD_FAST - 1, ALPHA_THRESHOLD_FAST}

Modes(s) == IF s = "fast" THEN {"PGM"} ELSE {"RGBA", "RGB"}

\* Widths with at most MaxPoints sampled columns, on and just past a
\* multiple of the sampling interval.
Widths(s) ==
    {w \in 0..(MaxPoints * step(s)) : w % step(s) <= 1}

\* extract_bounds.py fixes WIDTH and HEIGHT to positive numbers; the other
\* two scripts take what the image header says.
MinDim(s) == IF s = "plain" THEN 1 ELSE 0

Columns(h, s) == [1..h -> AlphaSet(s)]

Point(px, py) == [x |-> px, y |-> py]

\* ------------------------------------------------------------------- Init
Init ==
    /\ script \in Scripts
    /\ mode \in Modes(script)
    /\ width \in {w \in Widths(script) : w >= MinDim(script)}
    /\ height \in MinDim(script)..MaxHeight
    /\ x = 0
    /\ col = <<>>
    /\ terrain_curve = <<>>
    /\ heightmap = <<>>
    /\ written = None
    /\ pc = "scan"
    /\ params = <<>>
    /\ safe_params = <<>>
    /\ all_above = None
    /\ formula = None

\* ---------------------------------------------------------------- actions
\* extract_bounds_rgb.py, one iteration of  for x in range(width).
rgb_scan_column ==
    /\ pc = "scan" /\ script = "rgb" /\ x < width
    /\ \E c \in Columns(height, script) :
          LET b == rgb_boundary(getpixel(c, mode), ALPHA_THRESHOLD)
          IN  /\ col' = c
              /\ terrain_curve' = IF b # None
                                  THEN Append(terrain_curve, Point(x, b[1]))
                                  ELSE terrain_curve
    /\ x' = x + 1
    /\ UNCHANGED <<script, mode, width, height, heightmap, written, pc>>
    /\ UNCHANGED fitvars

\* extract_bounds.py, one iteration of  for x in range(0, WIDTH, SAMPLE_INTERVAL).
plain_scan_column ==
    /\ pc = "scan" /\ script = "plain" /\ x < width
    /\ \E c \in Columns(height, script) :
          /\ col' = c
          /\ heightmap' = Append(heightmap,
                                 Point(x, find_top_opaque_pixel(c, mode)))
    /\ x' = x + SAMPLE_INTERVAL
    /\ UNCHANGED <<script, mode, width, height, terrain_curve, written, pc>>
    /\ UNCHANGED fitvars

\* extract_bounds_fast.py, one iteration of  for x in range(0, width, SAMPLE_INTERVAL).
fast_scan_column ==
    /\ pc = "scan" /\ script = "fast" /\ x < width
    /\ \E c \in Columns(height, script) :
          /\ col' = c
          /\ heightmap' = Append(heightmap,
                                 Point(x, fast_top_y(c, ALPHA_THRESHOLD_FAST)))
    /\ x' = x + SAMPLE_INTERVAL
    /\ UNCHANGED <<script, mode, width, height, terrain_curve, written, pc>>
    /\ UNCHANGED fitvars

\* The column loop ends.
scan_done ==
    /\ pc = "scan" /\ x >= width
    /\ pc' = "save"
    /\ col' = <<>>
    /\ UNCHANGED <<script, mode, width, height, x, terrain_curve, heightmap,
                   written>>
    /\ UNCHANGED fitvars

\* json.dump of the extracted points to the output file.
save ==
    /\ pc = "save"
    /\ written' = Some(IF script = "rgb" THEN terrain_curve ELSE heightmap)
    /\ pc' = "stats"
    /\ UNCHANGED <<script, mode, width, height, x, col, terrain_curve,
                   heightmap>>
    /\ UNCHANGED fitvars

\* min(y_values) / max(y_values): ValueError on an empty list.  The rgb
\* script goes on to the curve fit, the other two end.
stats ==
    /\ pc = "stats"
    /\ pc' = IF written[1] = <<>> THEN "ValueError"
             ELSE IF script = "rgb" THEN "curve_fit" ELSE "done"
    /\ UNCHANGED <<script, mode, width, height, x, col, terrain_curve,
                   heightmap, written>>
    /\ UNCHANGED fitvars

Next ==
    \/ rgb_scan_column
    \/ plain_scan_column
    \/ fast_scan_column
    \/ scan_done
    \/ save
    \/ stats

Spec == Init /\ [][Next]_vars

\* ============================================================ the curve fit
\* extract_bounds_rgb.py from line 105 on.

\* Fixed point: FP units per pixel for coefficients and curve values, TRIG
\* units for the value 1 of a sine or cosine.
FP == 10
TRIG == 1000

\* The parameters of fourier_curve: a0, a1, b1, a2, b2, a3, b3; the buffer
\* added to the worst residual, in pixels.
NUM_PARAMS == 7
EXTRA_MARGIN == 5

\* Bounds of the fit's inputs.
MinFitWidth == 5
MaxFitWidth == 10
YHigh == 100

\* sin(pi * m / q) for 0 <= m <= q, in TRIG units (Bhaskara's rational
\* approximation, within 0.2 percent of TRIG).
half_wave(m, q) == (16 * m * (q - m) * TRIG) \div (5 * q * q - 4 * m * (q - m))

\* sin of m quarter-turn fractions: the angle is pi * m / (2 * w).
sin_units(m, w) ==
    LET r == m % (4 * w)
    IN  IF r <= 2 * w THEN half_wave(r, 2 * w) ELSE 0 - half_wave(r - 2 * w, 2 * w)

\* np.sin(k * freq * x) and np.cos(k * freq * x) with freq = 2 * pi / width.
np_sin(k, xx, w) == sin_units(4 * k * xx, w)
np_cos(k, xx, w) == sin_units(4 * k * xx + w, w)

fourier_curve(xx, p, w) ==
    p[1] + ((p[2] * np_cos(1, xx, w) + p[3] * np_sin(1, xx, w)
             + p[4] * np_cos(2, xx, w) + p[5] * np_sin(2, xx, w)
             + p[6] * np_cos(3, xx, w) + p[7] * np_sin(3, xx, w)) \div TRIG)

\* y_data - y_fitted, one residual per boundary point.
residuals(curve, p, w) ==
    {curve[i].y * FP - fourier_curve(curve[i].x, p, w) : i \in 1..Len(curve)}

\* max_error = np.max(y_data - y_fitted)
max_error(curve, p, w) == SetMax(residuals(curve, p, w))

\* Faulty variant: the buffer is taken off the worst residual.
safety_margin_minus(err, eps) == err - eps * FP

\* safety_margin = max_error + 5
safety_margin(err, eps) == err + eps * FP

\* Faulty variant: the margin is taken off every coefficient.
shift_all(p, margin) == [k \in 1..Len(p) |-> p[k] - margin]

\* safe_params = params.copy(); safe_params[0] -= safety_margin
shift_a0(p, margin) == [p EXCEPT ![1] = @ - margin]

\* np.all(y_safe <= y_data)
np_all_above(curve, sp, w) ==
    \A i \in 1..Len(curve) : fourier_curve(curve[i].x, sp, w) <= curve[i].y * FP

\* ------------------------------------------------------- inputs of the fit
\* What the column loop leaves behind for a width w when every column has
\* an opaque pixel: one point per column, in ascending x.
BoundarySets(w) ==
    {[i \in 1..w |-> Point(i - 1, ys[i])] : ys \in [1..w -> {0, YHigh}]}

\* The least-squares optimum that curve_fit converges to.  The model is
\* linear in its parameters, and over the columns 0..w-1 with w >= 7 the
\* seven basis functions are orthogonal, so the optimum is the mean and the
\* first three discrete Fourier coefficients of the data.
RECURSIVE weighted_sum(_, _, _, _)
weighted_sum(curve, i, k, phase) ==
    IF i > Len(curve) THEN 0
    ELSE curve[i].y * FP
            * (IF k = 0 THEN TRIG
               ELSE sin_units(4 * k * curve[i].x + phase, Len(curve)))
         + weighted_sum(curve, i + 1, k, phase)

lsq_cos(curve, k) ==
    (2 * weighted_sum(curve, 1, k, Len(curve))) \div (Len(curve) * TRIG)

lsq_sin(curve, k) ==
    (2 * weighted_sum(curve, 1, k, 0)) \div (Len(curve) * TRIG)

least_squares(curve) ==
    <<weighted_sum(curve, 1, 0, 0) \div (Len(curve) * TRIG),
      lsq_cos(curve, 1), lsq_sin(curve, 1),
      lsq_cos(curve, 2), lsq_sin(curve, 2),
      lsq_cos(curve, 3), lsq_sin(curve, 3)>>

FitInit ==
    /\ script = "rgb"
    /\ mode = "RGBA"
    /\ width \in MinFitWidth..MaxFitWidth
    /\ height = YHigh + 1
    /\ x = width
    /\ col = <<>>
    /\ terrain_curve \in BoundarySets(width)
    /\ heightmap = <<>>
    /\ written = Some(terrain_curve)
    /\ pc = "curve_fit"
    /\ params = <<>>
    /\ safe_params = <<>>
    /\ all_above = None
    /\ formula = None

\* Faulty variant: the solver returns coefficients whatever the number of points.
curve_fit_unchecked ==
    /\ pc = "curve_fit"
    /\ params' = least_squares(terrain_curve) /\ pc' = "margin"
    /\ UNCHANGED <<script, mode, width, height, x, col, terrain_curve,
                   heightmap, written, safe_params, all_above, formula>>

\* params, _ = curve_fit(fourier_curve, x_data, y_data): raises with fewer
\* data points than parameters, and when the solver does not converge.
curve_fit ==
    /\ pc = "curve_fit"
    /\ IF Len(terrain_curve) < NUM_PARAMS
       THEN pc' = "FitError" /\ params' = params
       ELSE \/ pc' = "FitError" /\ params' = params
            \/ params' = least_squares(terrain_curve) /\ pc' = "margin"
    /\ UNCHANGED <<script, mode, width, height, x, col, terrain_curve,
                   heightmap, written, safe_params, all_above, formula>>

\* Lines 127-138: fitted values, worst residual, margin, shifted copy.
inflate ==
    /\ pc = "margin"
    /\ safe_params' =
          shift_a0(params,
                   safety_margin(max_error(terrain_curve, params, width),
                                 EXTRA_MARGIN))
    /\ pc' = "verify"
    /\ UNCHANGED <<script, mode, width, height, x, col, terrain_curve,
                   heightmap, written, params, all_above, formula>>

\* Lines 141-146: the clearance and "All points above terrain" prints.
verify ==
    /\ pc = "verify"
    /\ all_above' = Some(np_all_above(terrain_curve, safe_params, width))
    /\ pc' = "print_formula"
    /\ UNCHANGED <<script, mode, width, height, x, col, terrain_curve,
                   heightmap, written, params, safe_params, formula>>

\* Lines 148-157: the safe curve's coefficients are printed.
print_formula ==
    /\ pc = "print_formula"
    /\ formula' = Some(safe_params)
    /\ pc' = "done"
    /\ UNCHANGED <<script, mode, width, height, x, col, terrain_curve,
                   heightmap, written, params, safe_params, all_above>>

FitNext ==
    \/ curve_fit
    \/ inflate
    \/ verify
    \/ print_formula

FitSpec == FitInit /\ [][FitNext]_vars

\* ------------------------------------------------ extraction: the claims
\* What the claims say of a column, from the alpha values alone.
ClaimTransparent(v, threshold) == v <= threshold
ClaimOpaque(v, threshold) == v > threshold

TransitionRows(c, threshold) ==
    {y \in 0..(Len(c) - 2) : /\ ClaimTransparent(c[y + 1], threshold)
                             /\ ClaimOpaque(c[y + 2], threshold)}

OpaqueRows(c, threshold) ==
    {y \in 0..(Len(c) - 1) : ClaimOpaque(c[y + 1], threshold)}

\* The points the running script has collected, and its cut on the 0..255
\* scale (alpha / 255 > 0.5 is alpha > 127).
points == IF script = "rgb" THEN terrain_curve ELSE heightmap

Cut == IF script = "rgb" THEN ALPHA_THRESHOLD
       ELSE IF script = "fast" THEN ALPHA_THRESHOLD_FAST
       ELSE ALPHA_THRESHOLD_FAST - 1

\* A column has just been read by the loop: col is that column, at x - step.
JustScanned == pc = "scan" /\ x > 0

ReportedFor(px) ==
    IF points # <<>> /\ points[Len(points)].x = px
    THEN Some(points[Len(points)].y) ELSE None

HasAlpha == mode \in {"RGBA", "PGM"}

CeilDiv(a, b) == (a + b - 1) \div b

\* C2 (as claimed): once the column loop of a non-empty grid has ended, the
\* script holds exactly ceil(W / s) points, with x = 0, s, 2s, ... in order.
C2_Coverage ==
    (pc # "scan" /\ width > 0 /\ height > 0) =>
        /\ Len(points) = CeilDiv(width, step(script))
        /\ \A i \in 1..Len(points) : points[i].x = (i - 1) * step(script)

\* C3: a column of the transition-based extractor with a transparent row
\* directly above an opaque row is reported at y_min + 1, y_min the smallest
\* such row, whatever lies above it.
C3_TransitionRule ==
    (JustScanned /\ script = "rgb" /\ mode = "RGBA"
        /\ TransitionRows(col, ALPHA_THRESHOLD) # {}) =>
        ReportedFor(x - 1) = Some(SetMin(TransitionRows(col, ALPHA_THRESHOLD)) + 1)

\* C3 witness: the column [transparent, transparent, opaque, opaque] was
\* read and reported at row 2.
C3_Witness ==
    /\ JustScanned /\ script = "rgb" /\ mode = "RGBA"
    /\ col = <<ALPHA_THRESHOLD, ALPHA_THRESHOLD,
               ALPHA_THRESHOLD + 1, ALPHA_THRESHOLD + 1>>
    /\ ReportedFor(x - 1) = Some(2)

\* C4 (as claimed): a column of a non-empty grid without a transparent-to-
\* opaque transition is reported at its first opaque row, and at H - 1 when
\* it has no opaque row.
C4_Fallback ==
    (JustScanned /\ height > 0 /\ HasAlpha /\ TransitionRows(col, Cut) = {}) =>
        ReportedFor(x - step(script)) =
            Some(IF OpaqueRows(col, Cut) # {} THEN SetMin(OpaqueRows(col, Cut))
                 ELSE height - 1)

\* C7 (as claimed): with a grid of zero width or zero height nothing is
\* written out and the run does not complete.
C7_EmptyGridRejected ==
    (width = 0 \/ height = 0) => (written = None /\ pc # "done")

\* C10: under one threshold the transition-based rule and the plain
\* first-opaque rule report the same row whenever the former reports one,
\* except on columns whose row 0 is opaque and that have a later
\* transparent-to-opaque transition: there the plain rule reports 0 and the
\* transition-based rule a row >= 2.
Thresholds ==
    {ALPHA_THRESHOLD - 1, ALPHA_THRESHOLD, ALPHA_THRESHOLD + 1,
     ALPHA_THRESHOLD_FAST - 2, ALPHA_THRESHOLD_FAST - 1,
     ALPHA_THRESHOLD_FAST, ALPHA_THRESHOLD_FAST + 1}

Overhang(c, threshold) ==
    /\ Len(c) > 0 /\ ClaimOpaque(c[1], threshold)
    /\ TransitionRows(c, threshold) # {}

Agree(t, p, c, threshold) ==
    t # None =>
        IF Overhang(c, threshold) THEN p = 0 /\ t[1] >= 2 ELSE t[1] = p

C10_RulesAgree ==
    JustScanned =>
        /\ \A t \in Thresholds :
              Agree(rgb_boundary(getpixel(col, "RGBA"), t),
                    fast_top_y(col, t), col, t)
        /\ Agree(rgb_boundary(getpixel(col, "RGBA"), ALPHA_THRESHOLD_FAST - 1),
                 find_top_opaque_pixel(col, "RGBA"), col,
                 ALPHA_THRESHOLD_FAST - 1)

\* C10 witness: an overhang column was read by the transition-based
\* extractor and reported at row 2, where the plain rule gives row 0.
C10_Witness ==
    /\ JustScanned /\ script = "rgb" /\ mode = "RGBA"
    /\ Overhang(col, ALPHA_THRESHOLD)
    /\ ReportedFor(x - 1) = Some(2)
    /\ fast_top_y(col, ALPHA_THRESHOLD) = 0

\* ------------------------------------------------------- the fit: claims
ClaimResidual(i, p) ==
    terrain_curve[i].y * FP - fourier_curve(terrain_curve[i].x, p, width)

ClaimClearance(i, sp) ==
    terrain_curve[i].y * FP - fourier_curve(terrain_curve[i].x, sp, width)

ClaimEnvelope(sp) ==
    \A i \in 1..Len(terrain_curve) : ClaimClearance(i, sp) >= 0

\* C1 (as claimed): once the safe coefficients are set, the safe curve is at
\* or above every boundary point used in the fit: safe_y(x_i) <= y_i.
C1_EnvelopeGuarantee ==
    safe_params # <<>> => ClaimEnvelope(safe_params)

\* C5 (as claimed): a safe curve that lies below some boundary point ends
\* the run in an EnvelopeViolation; its coefficients are never printed.
C5_ViolationIsAnError ==
    (safe_params # <<>> /\ ~ClaimEnvelope(safe_params)) =>
        (pc \in {"verify", "EnvelopeViolation"} /\ formula = None)

\* C6: with fewer than 7 boundary points, or a solver that did not
\* converge, the run ends in a FitError, and margin, safe coefficients,
\* verification and formula exist only after a fit that returned
\* coefficients.
C6_FitFailureTerminal ==
    /\ Len(terrain_curve) < NUM_PARAMS => pc \in {"curve_fit", "FitError"}
    /\ pc \in {"curve_fit", "FitError"} =>
          (params = <<>> /\ safe_params = <<>> /\ all_above = None
              /\ formula = None)
    /\ pc \in {"margin", "verify", "print_formula", "done"} =>
          (Len(params) = NUM_PARAMS /\ Len(terrain_curve) >= NUM_PARAMS)

\* C6 witness: a fit on six points has ended in a FitError.
C6_Witness ==
    /\ pc = "FitError"
    /\ Len(terrain_curve) = NUM_PARAMS - 1
    /\ safe_params = <<>>

\* C8: for the fitted curve and boundary set at hand and buffers e1 < e2,
\* the safe curve under e2 lies exactly e2 - e1 below the one under e1 at
\* every x, and its smallest clearance is not smaller.
EpsSet == {1, EXTRA_MARGIN, EXTRA_MARGIN + 1}

inflate_with(eps) ==
    shift_a0(params,
             safety_margin(max_error(terrain_curve, params, width), eps))

MinClearance(sp) ==
    SetMin({ClaimClearance(i, sp) : i \in 1..Len(terrain_curve)})

C8_MarginMonotone ==
    pc = "verify" =>
        /\ safe_params = inflate_with(EXTRA_MARGIN)
        /\ \A e1, e2 \in EpsSet :
              e1 < e2 =>
                 LET s1 == inflate_with(e1)
                     s2 == inflate_with(e2)
                 IN  /\ \A xx \in 0..(2 * width) :
                           LET y1 == fourier_curve(xx, s1, width)
                               y2 == fourier_curve(xx, s2, width)
                           IN  y2 < y1 /\ y1 - y2 = (e2 - e1) * FP
                     /\ MinClearance(s2) >= MinClearance(s1)

\* C8 witness: the safe curve of the run (buffer 5) is in place and the
\* curve for buffer 6 lies one pixel below it at column 0.
C8_Witness ==
    /\ pc = "verify"
    /\ fourier_curve(0, safe_params, width)
         - fourier_curve(0, inflate_with(EXTRA_MARGIN + 1), width) = FP
    /\ MinClearance(inflate_with(EXTRA_MARGIN + 1)) > MinClearance(safe_params)

\* C9: the step that sets the safe coefficients lowers a0 by exactly
\* max_i(y_i - fitted(x_i)) + 5, copies the six harmonic coefficients, and
\* leaves the fitted coefficients, the boundary set and the period as they
\* were.
C9_InflateFrame ==
    [][pc = "margin" =>
          /\ params' = params
          /\ terrain_curve' = terrain_curve
          /\ width' = width
          /\ Len(safe_params') = NUM_PARAMS
          /\ \A k \in 2..NUM_PARAMS : safe_params'[k] = params[k]
          /\ \E i \in 1..Len(terrain_curve) :
                /\ \A j \in 1..Len(terrain_curve) :
                      ClaimResidual(j, params) <= ClaimResidual(i, params)
                /\ safe_params'[1] =
                      params[1] - (ClaimResidual(i, params) + EXTRA_MARGIN * FP)
      ]_vars

\* C9 witness: safe coefficients with non-zero harmonics have been derived
\* and a0 has moved.
C9_Witness ==
    /\ pc = "verify"
    /\ safe_params[1] # params[1]
    /\ safe_params[3] # 0
    /\ safe_params[3] = params[3]

====
